---- MODULE Spec2Model ----
(***************************************************************************)
(* Model of the ai-services ingestion pipeline and chat proxy:             *)
(*   app/training_service.py       TrainingService                         *)
(*   app/routes/training_routes.py stream_training.generate_progress       *)
(*   app/ollama_client.py          OllamaClient.stream_chat                *)
(***************************************************************************)
EXTENDS Integers, Sequences, FiniteSets, TLC

(***************************************************************************)
(* Python float arithmetic.  The progress percentages are computed with    *)
(* true division on floats (IEEE-754 binary64, round-half-even), then      *)
(* truncated by int().  A positive float is [m, e]: m the 53 significand   *)
(* bits, most significant first (m[1] = 1), value = m * 2^e; zero has the  *)
(* empty significand.  Every operation computes the exact result as a bit  *)
(* string and rounds it once, as the hardware does.                        *)
(***************************************************************************)
MantBits == 53

\* extra quotient bits a division produces before it is rounded
ExtBits == 12

\* the bit strings are added, multiplied and divided LimbBits bits at a time
LimbBits == 8

Base == 2 ^ LimbBits

FZero == [m |-> <<>>, e |-> 0]

Zeros(n) == [k \in 1..n |-> 0]

Front(b) == SubSeq(b, 1, Len(b) - 1)

RECURSIVE NatBits(_)
NatBits(n) == IF n = 0 THEN <<>> ELSE Append(NatBits(n \div 2), n % 2)

RECURSIVE BitsNat(_)
BitsNat(b) == IF b = <<>> THEN 0 ELSE 2 * BitsNat(Front(b)) + b[Len(b)]

StripZeros(b) ==
    LET k == CHOOSE k \in 1..(Len(b) + 1) :
                 /\ k = Len(b) + 1 \/ b[k] = 1
                 /\ \A j \in 1..(k - 1) : b[j] = 0
    IN  SubSeq(b, k, Len(b))

\* a bit string as limbs (most significant first), and back
ToLimbs(b) ==
    LET n == (Len(b) + LimbBits - 1) \div LimbBits
        p == Zeros(n * LimbBits - Len(b)) \o b
    IN  [i \in 1..n |-> BitsNat(SubSeq(p, (i - 1) * LimbBits + 1, i * LimbBits))]

ToBits(l) ==
    [k \in 1..(Len(l) * LimbBits) |->
        (l[(k - 1) \div LimbBits + 1] \div (2 ^ (LimbBits - 1 - ((k - 1) % LimbBits)))) % 2]

RECURSIVE AddLimbs(_, _, _)
AddLimbs(a, b, c) ==
    IF a = <<>> THEN <<c>>
    ELSE LET v == a[Len(a)] + b[Len(b)] + c
         IN  Append(AddLimbs(Front(a), Front(b), v \div Base), v % Base)

\* the sum of two bit strings
AddBits(a, b) ==
    LET la == ToLimbs(a)
        lb == ToLimbs(b)
        n == IF Len(la) > Len(lb) THEN Len(la) ELSE Len(lb)
    IN  ToBits(AddLimbs(Zeros(n - Len(la)) \o la, Zeros(n - Len(lb)) \o lb, 0))

RECURSIVE MulLimbs(_, _, _)
MulLimbs(a, n, c) ==
    IF a = <<>> THEN <<c>>
    ELSE LET v == a[Len(a)] * n + c
         IN  Append(MulLimbs(Front(a), n, v \div Base), v % Base)

RECURSIVE DivLimbs(_, _, _)
DivLimbs(a, r, d) ==
    IF a = <<>> THEN [q |-> <<>>, r |-> r]
    ELSE LET v == r * Base + Head(a)
             rest == DivLimbs(Tail(a), v % d, d)
         IN  [q |-> <<v \div d>> \o rest.q, r |-> rest.r]

\* quotient and remainder of a bit string by a small int
LongDiv(b, d) ==
    LET x == DivLimbs(ToLimbs(b), 0, d) IN [q |-> ToBits(x.q), r |-> x.r]

\* round the exact value bits * 2^e (plus a nonzero tail when sticky) to a float
FRound(bits, e, sticky) ==
    LET b == StripZeros(bits)
        n == Len(b)
    IN  IF n = 0 THEN FZero
        ELSE IF n <= MantBits
        THEN [m |-> b \o Zeros(MantBits - n), e |-> e - (MantBits - n)]
        ELSE LET keep == SubSeq(b, 1, MantBits)
                 st == sticky \/ (\E k \in (MantBits + 2)..n : b[k] = 1)
                 up == b[MantBits + 1] = 1 /\ (st \/ keep[MantBits] = 1)
                 r == IF up THEN StripZeros(AddBits(keep, <<1>>)) ELSE keep
             IN  IF Len(r) > MantBits
                 THEN [m |-> SubSeq(r, 1, MantBits), e |-> e + (n - MantBits) + 1]
                 ELSE [m |-> r, e |-> e + (n - MantBits)]

FromInt(n) == FRound(NatBits(n), 0, FALSE)

\* x / n for a float x and a positive int n
FDivInt(x, n) ==
    IF x.m = <<>> THEN FZero
    ELSE LET d == LongDiv(x.m \o Zeros(ExtBits), n)
         IN  FRound(d.q, x.e - ExtBits, d.r # 0)

\* a / b for ints (Python 3 true division)
TrueDiv(a, b) == FDivInt(FromInt(a), b)

\* x * n for a float x and a positive int n
FMulInt(x, n) ==
    IF x.m = <<>> THEN FZero
    ELSE FRound(ToBits(MulLimbs(ToLimbs(x.m), n, 0)), x.e, FALSE)

FAdd(x, y) ==
    IF x.m = <<>> THEN y
    ELSE IF y.m = <<>> THEN x
    ELSE LET e == IF x.e < y.e THEN x.e ELSE y.e
         IN  FRound(AddBits(x.m \o Zeros(x.e - e), y.m \o Zeros(y.e - e)), e, FALSE)

\* int(x) for a float 0 <= x < 2^53
FTrunc(x) ==
    IF x.m = <<>> \/ MantBits + x.e <= 0 THEN 0
    ELSE BitsNat(SubSeq(x.m, 1, MantBits + x.e))

(***************************************************************************)
(* The percentages of generate_progress.                                   *)
(***************************************************************************)
\* int((file_idx - 1) / total_files * 100)
PctProcessing(i, F) == FTrunc(FMulInt(TrueDiv(i - 1, F), 100))

\* int(((file_idx - 1) / total_files + chunk_idx / total_chunks / total_files) * 100)
PctChunk(i, F, j, C) ==
    FTrunc(FMulInt(FAdd(TrueDiv(i - 1, F), FDivInt(TrueDiv(j, C), F)), 100))

\* int((file_idx / total_files) * 100)
PctCompleted(i, F) == FTrunc(FMulInt(TrueDiv(i, F), 100))

\* file_detail["percentage"] = int((chunk_idx / total_chunks) * 100)
FilePct(j, C) == FTrunc(FMulInt(TrueDiv(j, C), 100))

(***************************************************************************)
(* Python strings are sequences of characters; " " stands for whitespace.  *)
(***************************************************************************)
Chars == {"a", " "}

Max(S) == CHOOSE m \in S : \A k \in S : k <= m
Min(S) == CHOOSE m \in S : \A k \in S : m <= k

\* str.strip()
Strip(s) ==
    LET idx == {k \in 1..Len(s) : s[k] # " "}
    IN  IF idx = {} THEN <<>> ELSE SubSeq(s, Min(idx), Max(idx))

\* s[a:b], with Python's treatment of negative and out-of-range bounds
PySlice(s, a, b) ==
    LET n == Len(s)
        lo == IF a < 0 THEN (IF a + n < 0 THEN 0 ELSE a + n) ELSE (IF a > n THEN n ELSE a)
        hi == IF b < 0 THEN (IF b + n < 0 THEN 0 ELSE b + n) ELSE (IF b > n THEN n ELSE b)
    IN  IF lo < hi THEN SubSeq(s, lo + 1, hi) ELSE <<>>

(***************************************************************************)
(* Bounds of the model.                                                    *)
(***************************************************************************)
\* longest text given to the chunker on its own
MaxLen == 4
\* largest window and overlap given to the chunker on its own
MaxW == 3
MaxV == 3
\* files per job
MaxFiles == 2

RECURSIVE SeqsUpTo(_, _)
SeqsUpTo(S, n) ==
    IF n = 0 THEN {<<>>}
    ELSE LET shorter == SeqsUpTo(S, n - 1)
         IN  shorter \cup {Append(q, c) : q \in {t \in shorter : Len(t) = n - 1}, c \in S}

Texts == SeqsUpTo(Chars, MaxLen)

VARIABLES
    \* TrainingService instance
    chunk_size, chunk_overlap,
    \* one run of _chunk_text, iteration by iteration
    ck_pc, ck_text, ck_start, ck_chunks, ck_visited,
    \* one extractor selection of process_file
    d_ext, d_mime, d_used,
    \* the knowledge_base_embeddings table and the database clock
    store, now,
    \* the last store_embedding call made directly, and the table before it
    st_last,
    \* one stream_chat generator: the upstream lines, how many were read, the
    \* deltas yielded, and where the generator is
    ch_lines, ch_pos, ch_out, ch_pc,
    \* one relay of chat_routes.py around that generator: which relay it is, what it
    \* has yielded, and where it is
    r_kind, r_out, r_pc,
    \* the percentages of the events of one job
    p_pc, p_F, p_i, p_C, p_j, p_prev, p_cur,
    \* the generate_progress generators, one per request slot
    scope, req, pc, file_idx, chunk_idx, chunks, embedding, file_details, events, calls,
    \* whether the consumer of each generator's response is still connected
    connected

chunkVars == <<ck_pc, ck_text, ck_start, ck_chunks, ck_visited>>
cfgVars == <<chunk_size, chunk_overlap>>
dispVars == <<d_ext, d_mime, d_used>>
dbVars == <<store, now>>
jobVars == <<scope, req, pc, file_idx, chunk_idx, chunks, embedding, file_details, events, calls,
             connected>>
pctVars == <<p_pc, p_F, p_i, p_C, p_j, p_prev, p_cur>>
relayVars == <<r_kind, r_out, r_pc>>
chatVars == <<ch_lines, ch_pos, ch_out, ch_pc, relayVars>>
vars == <<cfgVars, chunkVars, dispVars, dbVars, st_last, chatVars, pctVars, jobVars>>

\* the parts of the state a specification does not exercise
ChunkIdle ==
    /\ ck_pc = "idle" /\ ck_text = <<>> /\ ck_start = 0
    /\ ck_chunks = <<>> /\ ck_visited = <<>>
DispIdle == d_ext = "" /\ d_mime = "" /\ d_used = "idle"
NoCall == [called |-> FALSE, conflict |-> FALSE, before |-> {},
           knowledge_base_id |-> 0, version_id |-> 0, file_id |-> 0, chunk_index |-> 0,
           chunk_text |-> <<>>, embedding |-> <<>>, metadata |-> [chunk_start |-> 0]]
DbIdle == store = {} /\ now = 0 /\ st_last = NoCall
RelayIdle == r_kind = "none" /\ r_out = <<>> /\ r_pc = "idle"
ChatIdle ==
    /\ ch_lines = <<>> /\ ch_pos = 0 /\ ch_out = <<>> /\ ch_pc = "idle"
    /\ RelayIdle
PctIdle ==
    /\ p_pc = "idle" /\ p_F = 0 /\ p_i = 0 /\ p_C = 0 /\ p_j = 0
    /\ p_prev = 0 /\ p_cur = 0
JobIdle ==
    /\ scope = [njobs |-> 0, maxFiles |-> 0]
    /\ req = <<>> /\ pc = <<>> /\ file_idx = <<>> /\ chunk_idx = <<>>
    /\ chunks = <<>> /\ embedding = <<>> /\ file_details = <<>>
    /\ events = <<>> /\ calls = <<>> /\ connected = <<>>

CfgDefault == chunk_size = 2 /\ chunk_overlap = 1

(***************************************************************************)
(* TrainingService._chunk_text                                             *)
(***************************************************************************)
\* an iteration that starts the next window where this one ends
ChunkIterNoOverlap(text, metadata, W, V, st) ==
    LET end == st.start + W
        chunk_text == PySlice(text, st.start, end)
        chunk_metadata == [chunk_start |-> st.start, chunk_end |-> end] @@ metadata
    IN  [start |-> end,
         chunks |-> IF Strip(chunk_text) # <<>>
                    THEN Append(st.chunks, [text |-> chunk_text, metadata |-> chunk_metadata])
                    ELSE st.chunks]

\* one iteration of the while loop, from the loop state st = [start, chunks]
ChunkIter(text, metadata, W, V, st) ==
    LET end == st.start + W
        chunk_text == PySlice(text, st.start, end)
        chunk_metadata == [chunk_start |-> st.start, chunk_end |-> end] @@ metadata
    IN  [start |-> end - V,
         chunks |-> IF Strip(chunk_text) # <<>>
                    THEN Append(st.chunks, [text |-> chunk_text, metadata |-> chunk_metadata])
                    ELSE st.chunks]

RECURSIVE ChunkLoop(_, _, _, _, _)
ChunkLoop(text, metadata, W, V, st) ==
    IF st.start < Len(text)
    THEN ChunkLoop(text, metadata, W, V, ChunkIter(text, metadata, W, V, st))
    ELSE st.chunks

\* the whole call; it returns only when the loop ends, that is when W > V
ChunkText(text, metadata, W, V) ==
    ChunkLoop(text, metadata, W, V, [start |-> 0, chunks |-> <<>>])

NoMetadata == [file_id |-> 0]

\* most iterations followed in a run that never ends
MaxVisits == MaxLen + 2

InitChunk ==
    /\ chunk_size \in 1..MaxW
    /\ chunk_overlap \in 0..MaxV
    /\ ck_text \in Texts
    /\ ck_pc = "call"
    /\ ck_start = 0
    /\ ck_chunks = <<>>
    /\ ck_visited = <<>>
    /\ DispIdle /\ DbIdle /\ ChatIdle /\ PctIdle /\ JobIdle

ChunkEnter ==
    /\ ck_pc = "call"
    /\ ck_pc' = "loop"
    /\ ck_start' = 0
    /\ ck_chunks' = <<>>
    /\ UNCHANGED <<cfgVars, dispVars, dbVars, st_last, chatVars, pctVars, jobVars, ck_text, ck_visited>>

ChunkIterate ==
    /\ ck_pc = "loop"
    /\ ck_start < Len(ck_text)
    /\ Len(ck_visited) < MaxVisits
    /\ LET st == ChunkIter(ck_text, NoMetadata, chunk_size, chunk_overlap,
                           [start |-> ck_start, chunks |-> ck_chunks])
       IN  /\ ck_start' = st.start
           /\ ck_chunks' = st.chunks
    /\ ck_visited' = Append(ck_visited, ck_start)
    /\ UNCHANGED <<cfgVars, dispVars, dbVars, st_last, chatVars, pctVars, jobVars, ck_pc, ck_text>>

ChunkReturn ==
    /\ ck_pc = "loop"
    /\ ~(ck_start < Len(ck_text))
    /\ ck_pc' = "done"
    /\ UNCHANGED <<cfgVars, dispVars, dbVars, st_last, chatVars, pctVars, jobVars, ck_text, ck_start, ck_chunks, ck_visited>>

NextChunk == ChunkEnter \/ ChunkIterate \/ ChunkReturn

SpecChunk == InitChunk /\ [][NextChunk]_vars

(***************************************************************************)
(* TrainingService.process_file: the choice of the extractor.              *)
(***************************************************************************)
Exts == {".pdf", ".PDF", ".docx", ".doc", ".xlsx", ".xls", ".csv", ".json",
         ".txt", ".md", ".bin", ""}

WordML == "application/vnd.openxmlformats-officedocument.wordprocessingml.document"
SheetML == "application/vnd.openxmlformats-officedocument.spreadsheetml.sheet"

Mimes == {"application/pdf", WordML, "application/msword", SheetML,
          "application/vnd.ms-excel", "text/csv", "application/json",
          "text/plain", "text/markdown", "application/octet-stream", ""}

\* Path(file_path).suffix.lower()
Lower(ext) == IF ext = ".PDF" THEN ".pdf" ELSE ext

\* part in mime_type, for the media types of Mimes
Contains(mime_type, part) ==
    \/ part = "wordprocessingml" /\ mime_type = WordML
    \/ part = "spreadsheetml" /\ mime_type = SheetML

\* the if/elif chain of process_file, on the lowered suffix and the media type
Extractor(file_ext, mime_type) ==
    IF file_ext = ".pdf" \/ mime_type = "application/pdf" THEN "pdf"
    ELSE IF file_ext \in {".docx", ".doc"} \/ Contains(mime_type, "wordprocessingml")
            \/ mime_type = "application/msword" THEN "docx"
    ELSE IF file_ext \in {".xlsx", ".xls"} \/ Contains(mime_type, "spreadsheetml")
            \/ mime_type \in {"application/vnd.ms-excel", SheetML} THEN "excel"
    ELSE IF file_ext = ".csv" \/ mime_type = "text/csv" THEN "csv"
    ELSE IF file_ext = ".json" \/ mime_type = "application/json" THEN "json"
    ELSE IF file_ext \in {".txt", ".md"} \/ mime_type \in {"text/plain", "text/markdown"}
    THEN "text"
    ELSE "text"

InitDispatch ==
    /\ d_ext \in Exts
    /\ d_mime \in Mimes
    /\ d_used = "idle"
    /\ CfgDefault /\ ChunkIdle /\ DbIdle /\ ChatIdle /\ PctIdle /\ JobIdle

Dispatch ==
    /\ d_used = "idle"
    /\ d_used' = Extractor(Lower(d_ext), d_mime)
    /\ UNCHANGED <<cfgVars, chunkVars, dbVars, st_last, chatVars, pctVars, jobVars, d_ext, d_mime>>

NextDispatch == Dispatch

SpecDispatch == InitDispatch /\ [][NextDispatch]_vars

(***************************************************************************)
(* TrainingService.store_embedding: one INSERT ... ON CONFLICT DO UPDATE,   *)
(* committed at database time t.  The table is a set of rows; the unique   *)
(* index named by ON CONFLICT is (version, file, chunk_index).             *)
(***************************************************************************)
SameKey(r, version_id, file_id, chunk_index) ==
    /\ r.knowledge_base_version_id = version_id
    /\ r.knowledge_base_file_id = file_id
    /\ r.chunk_index = chunk_index

\* a plain INSERT, without the ON CONFLICT clause
InsertOnly(table, embedding_id, knowledge_base_id, version_id, file_id, chunk_index, chunk_text, emb, metadata, t) ==
    table \cup {[id |-> embedding_id,
                 knowledge_base_id |-> knowledge_base_id,
                 knowledge_base_version_id |-> version_id,
                 knowledge_base_file_id |-> file_id,
                 chunk_index |-> chunk_index,
                 chunk_text |-> chunk_text,
                 embedding |-> emb,
                 metadata |-> metadata,
                 created_at |-> t,
                 updated_at |-> t]}

\* an upsert that replaces the whole row of the key (DELETE, then INSERT)
UpsertReplacesRow(table, embedding_id, knowledge_base_id, version_id, file_id, chunk_index, chunk_text, emb, metadata, t) ==
    {r \in table : ~SameKey(r, version_id, file_id, chunk_index)}
        \cup {[id |-> embedding_id,
                knowledge_base_id |-> knowledge_base_id,
                knowledge_base_version_id |-> version_id,
                knowledge_base_file_id |-> file_id,
                chunk_index |-> chunk_index,
                chunk_text |-> chunk_text,
                embedding |-> emb,
                metadata |-> metadata,
                created_at |-> t,
                updated_at |-> t]}

Upsert(table, embedding_id, knowledge_base_id, version_id, file_id, chunk_index, chunk_text, emb, metadata, t) ==
    IF \E r \in table : SameKey(r, version_id, file_id, chunk_index)
    THEN {IF SameKey(r, version_id, file_id, chunk_index)
          THEN [r EXCEPT !.chunk_text = chunk_text, !.embedding = emb,
                         !.metadata = metadata, !.updated_at = t]
          ELSE r : r \in table}
    ELSE table \cup {[id |-> embedding_id,
                      knowledge_base_id |-> knowledge_base_id,
                      knowledge_base_version_id |-> version_id,
                      knowledge_base_file_id |-> file_id,
                      chunk_index |-> chunk_index,
                      chunk_text |-> chunk_text,
                      embedding |-> emb,
                      metadata |-> metadata,
                      created_at |-> t,
                      updated_at |-> t]}

\* embedding_id = int(time.time() * 1000000) + random.randint(0, 999999): an id no
\* row has yet (an id that collides with a row of another key makes the INSERT
\* fail, which is one of the ways store_embedding raises)
NewId(table) == IF table = {} THEN 1 ELSE Max({r.id : r \in table}) + 1

(***************************************************************************)
(* TrainingService.generate_embedding: what the call returns for a reply   *)
(* of the embedding service.  A reply is "error" (transport failure or     *)
(* non-success status), "vector" or "nofield" (a success reply without the *)
(* embedding field).                                                       *)
(***************************************************************************)
EmbedReplies == {"error", "vector", "nofield"}

\* the vector the service computes for a text
VectorOf(text) == <<Len(text)>>

GenerateEmbedding(text, reply) ==
    IF reply = "error" THEN [raised |-> TRUE, value |-> <<>>]
    ELSE IF reply = "vector" THEN [raised |-> FALSE, value |-> VectorOf(text)]
    ELSE [raised |-> FALSE, value |-> <<>>]

(***************************************************************************)
(* TrainingService.process_file on a file as it is on disk:                *)
(* disk = [exists, readable, text].                                        *)
(***************************************************************************)
JobTexts == {<<>>, <<" ">>, <<"a">>, <<"a", "a">>}

DiskStates ==
    {[exists |-> FALSE, readable |-> FALSE, text |-> <<>>],
     [exists |-> TRUE, readable |-> FALSE, text |-> <<>>]}
    \cup {[exists |-> TRUE, readable |-> TRUE, text |-> t] : t \in JobTexts}

\* process_file without the check of the extracted text
ProcessFileNoBlankCheck(file, disk, W, V) ==
    LET extractor == Extractor(Lower(file.ext), file.mime_type)
        metadata == [file_id |-> file.id, mime_type |-> file.mime_type]
        none == [raised |-> FALSE, hung |-> FALSE, chunked |-> FALSE,
                 extractor |-> "none", chunks |-> <<>>]
    IN  IF ~disk.exists THEN [none EXCEPT !.raised = TRUE]
        ELSE IF ~disk.readable
        THEN [none EXCEPT !.raised = TRUE, !.extractor = extractor]
        ELSE IF W - V <= 0 /\ disk.text # <<>>
        THEN [none EXCEPT !.hung = TRUE, !.chunked = TRUE, !.extractor = extractor]
        ELSE [none EXCEPT !.chunked = TRUE, !.extractor = extractor,
                          !.chunks = ChunkText(disk.text, metadata, W, V)]

\* the files of two jobs that run at once: missing, or a text of ConcLen characters
ConcLen == 2

ConcDisks ==
    {[exists |-> FALSE, readable |-> FALSE, text |-> <<>>],
     [exists |-> TRUE, readable |-> TRUE, text |-> [k \in 1..ConcLen |-> "a"]]}

\* result: raised (an exception leaves process_file), hung (the chunker never
\* returns), else the chunks; chunked tells whether _chunk_text was entered
ProcessFileResult(file, disk, W, V) ==
    LET extractor == Extractor(Lower(file.ext), file.mime_type)
        metadata == [file_id |-> file.id, mime_type |-> file.mime_type]
        none == [raised |-> FALSE, hung |-> FALSE, chunked |-> FALSE,
                 extractor |-> "none", chunks |-> <<>>]
    IN  IF ~disk.exists THEN [none EXCEPT !.raised = TRUE]
        ELSE IF ~disk.readable
        THEN [none EXCEPT !.raised = TRUE, !.extractor = extractor]
        ELSE IF Strip(disk.text) = <<>>
        THEN [none EXCEPT !.raised = TRUE, !.extractor = extractor]
        ELSE IF W - V <= 0
        THEN [none EXCEPT !.hung = TRUE, !.chunked = TRUE, !.extractor = extractor]
        ELSE [none EXCEPT !.chunked = TRUE, !.extractor = extractor,
                          !.chunks = ChunkText(disk.text, metadata, W, V)]

(***************************************************************************)
(* stream_training.generate_progress                                       *)
(***************************************************************************)
\* The percentages of the jobs of the model, computed once: the most chunks a
\* text of JobTexts gives is its length (every window starts one character or
\* more after the one before).
JobMaxChunks == Max({Len(t) : t \in JobTexts} \cup {ConcLen})

PctProcessingOf ==
    [F \in 1..MaxFiles |-> [i \in 1..F |-> PctProcessing(i, F)]]

PctCompletedOf ==
    [F \in 1..MaxFiles |-> [i \in 1..F |-> PctCompleted(i, F)]]

PctChunkOf ==
    [F \in 1..MaxFiles |-> [i \in 1..F |->
        [C \in 1..JobMaxChunks |-> [k \in 1..C |-> PctChunk(i, F, k, C)]]]]

FilePctOf == [C \in 1..JobMaxChunks |-> [k \in 1..C |-> FilePct(k, C)]]

FileChoices ==
    {[id |-> 1, ext |-> ".txt", mime_type |-> "text/plain"],
     [id |-> 2, ext |-> ".pdf", mime_type |-> "text/plain"]}

Requests(maxFiles) ==
    {[knowledge_base_id |-> 1, version_id |-> 1, files |-> fs] :
        fs \in SeqsUpTo(FileChoices, maxFiles)}

Jobs == 1..scope.njobs

ProgressEvent(i, F, cc, tc, pct, status, fds) ==
    [type |-> "progress", current_file |-> i, total_files |-> F,
     current_chunk |-> cc, total_chunks |-> tc, percentage |-> pct,
     status |-> status, file_details |-> fds]

ErrorEvent(i, F, fds) ==
    [type |-> "error", current_file |-> i, total_files |-> F, file_details |-> fds]

CompleteEvent(F) ==
    [type |-> "complete", current_file |-> F, total_files |-> F,
     percentage |-> 100, status |-> "completed"]

JobErrorEvent == [type |-> "error", message |-> "Training failed"]

NewFileDetail(file) ==
    [file_id |-> file.id, status |-> "processing", chunks_total |-> 0,
     chunks_done |-> 0, percentage |-> 0]

TotalFiles(j) == Len(req[j].files)

\* an except branch that ends the job instead of continuing with the next file
FailFileAborts(j, more_calls) ==
    LET fds == [file_details[j] EXCEPT ![file_idx[j]].status = "failed"]
    IN  /\ file_details' = [file_details EXCEPT ![j] = fds]
        /\ events' = [events EXCEPT
                         ![j] = Append(@, ErrorEvent(file_idx[j], TotalFiles(j), fds))]
        /\ calls' = [calls EXCEPT ![j] = @ \o more_calls]
        /\ pc' = [pc EXCEPT ![j] = "done"]

\* the except branch of the per-file try: mark the file failed, yield an error
\* event, continue with the next file
FailFile(j, more_calls) ==
    LET fds == [file_details[j] EXCEPT ![file_idx[j]].status = "failed"]
    IN  /\ file_details' = [file_details EXCEPT ![j] = fds]
        /\ events' = [events EXCEPT
                         ![j] = Append(@, ErrorEvent(file_idx[j], TotalFiles(j), fds))]
        /\ calls' = [calls EXCEPT ![j] = @ \o more_calls]
        /\ pc' = [pc EXCEPT ![j] = "next"]

\* the head of the chunk loop for chunk number k: update the file detail and yield
\* the embedding event
StartChunk(j, k, cks, more_calls) ==
    LET total == Len(cks)
        fds == [file_details[j] EXCEPT
                   ![file_idx[j]].chunks_total = total,
                   ![file_idx[j]].chunks_done = k,
                   ![file_idx[j]].percentage = FilePctOf[total][k],
                   ![file_idx[j]].status = "embedding"]
    IN  /\ file_details' = [file_details EXCEPT ![j] = fds]
        /\ chunk_idx' = [chunk_idx EXCEPT ![j] = k]
        /\ events' = [events EXCEPT ![j] = Append(@,
               ProgressEvent(file_idx[j], TotalFiles(j), k, total,
                             PctChunkOf[TotalFiles(j)][file_idx[j]][total][k],
                             "embedding", fds))]
        /\ calls' = [calls EXCEPT ![j] = @ \o more_calls]
        /\ pc' = [pc EXCEPT ![j] = "embed"]

\* a completed event that leaves the file's status as the chunk loop left it
FinishFileKeepsStatus(j, cks, more_calls) ==
    LET total == Len(cks)
        fds == [file_details[j] EXCEPT
                   ![file_idx[j]].chunks_total = total,
                   ![file_idx[j]].percentage = 100]
    IN  /\ file_details' = [file_details EXCEPT ![j] = fds]
        /\ chunk_idx' = chunk_idx
        /\ events' = [events EXCEPT ![j] = Append(@,
               ProgressEvent(file_idx[j], TotalFiles(j), total, total,
                             PctCompletedOf[TotalFiles(j)][file_idx[j]],
                             "completed", fds))]
        /\ calls' = [calls EXCEPT ![j] = @ \o more_calls]
        /\ pc' = [pc EXCEPT ![j] = "next"]

\* after the chunk loop: mark the file completed and yield the completed event
FinishFile(j, cks, more_calls) ==
    LET total == Len(cks)
        fds == [file_details[j] EXCEPT
                   ![file_idx[j]].chunks_total = total,
                   ![file_idx[j]].status = "completed",
                   ![file_idx[j]].percentage = 100]
    IN  /\ file_details' = [file_details EXCEPT ![j] = fds]
        /\ chunk_idx' = chunk_idx
        /\ events' = [events EXCEPT ![j] = Append(@,
               ProgressEvent(file_idx[j], TotalFiles(j), total, total,
                             PctCompletedOf[TotalFiles(j)][file_idx[j]],
                             "completed", fds))]
        /\ calls' = [calls EXCEPT ![j] = @ \o more_calls]
        /\ pc' = [pc EXCEPT ![j] = "next"]

\* POST /training/stream: a new generator for request r
StartJob(j, r) ==
    /\ pc[j] = "idle"
    /\ req' = [req EXCEPT ![j] = r]
    /\ file_idx' = [file_idx EXCEPT ![j] = 0]
    /\ chunk_idx' = [chunk_idx EXCEPT ![j] = 0]
    /\ chunks' = [chunks EXCEPT ![j] = <<>>]
    /\ embedding' = [embedding EXCEPT ![j] = <<>>]
    /\ file_details' = [file_details EXCEPT ![j] = <<>>]
    /\ events' = [events EXCEPT ![j] = <<>>]
    /\ calls' = [calls EXCEPT ![j] = <<>>]
    /\ pc' = [pc EXCEPT ![j] = "next"]
    /\ UNCHANGED <<cfgVars, chunkVars, dispVars, dbVars, st_last, chatVars, pctVars, scope, connected>>

\* a file loop whose FileDetail list is one list shared by every generator
BeginFileSharedDetails(j) ==
    /\ pc[j] = "next"
    /\ file_idx[j] < TotalFiles(j)
    /\ LET i == file_idx[j] + 1
           fds == Append(file_details[j], NewFileDetail(req[j].files[i]))
       IN  /\ file_idx' = [file_idx EXCEPT ![j] = i]
           /\ file_details' = [m \in Jobs |-> fds]
           /\ events' = [events EXCEPT ![j] = Append(@,
                  ProgressEvent(i, TotalFiles(j), 0, 0,
                                PctProcessingOf[TotalFiles(j)][i], "processing", fds))]
    /\ chunk_idx' = [chunk_idx EXCEPT ![j] = 0]
    /\ chunks' = [chunks EXCEPT ![j] = <<>>]
    /\ pc' = [pc EXCEPT ![j] = "process"]
    /\ UNCHANGED <<cfgVars, chunkVars, dispVars, dbVars, st_last, chatVars, pctVars, scope, connected, req, embedding, calls>>

\* a file loop that first deletes the records stored for the file before
BeginFileClearsOldRows(j) ==
    /\ pc[j] = "next"
    /\ file_idx[j] < TotalFiles(j)
    /\ LET i == file_idx[j] + 1
           fds == Append(file_details[j], NewFileDetail(req[j].files[i]))
       IN  /\ file_idx' = [file_idx EXCEPT ![j] = i]
           /\ file_details' = [file_details EXCEPT ![j] = fds]
           /\ events' = [events EXCEPT ![j] = Append(@,
                  ProgressEvent(i, TotalFiles(j), 0, 0,
                                PctProcessingOf[TotalFiles(j)][i], "processing", fds))]
           /\ store' = {r \in store :
                           \/ r.knowledge_base_version_id # req[j].version_id
                           \/ r.knowledge_base_file_id # req[j].files[i].id}
    /\ chunk_idx' = [chunk_idx EXCEPT ![j] = 0]
    /\ chunks' = [chunks EXCEPT ![j] = <<>>]
    /\ pc' = [pc EXCEPT ![j] = "process"]
    /\ UNCHANGED <<cfgVars, chunkVars, dispVars, now, st_last, chatVars, pctVars, scope, connected, req, embedding, calls>>

\* the head of the file loop: append the file detail, yield the processing event
BeginFile(j) ==
    /\ pc[j] = "next"
    /\ file_idx[j] < TotalFiles(j)
    /\ LET i == file_idx[j] + 1
           fds == Append(file_details[j], NewFileDetail(req[j].files[i]))
       IN  /\ file_idx' = [file_idx EXCEPT ![j] = i]
           /\ file_details' = [file_details EXCEPT ![j] = fds]
           /\ events' = [events EXCEPT ![j] = Append(@,
                  ProgressEvent(i, TotalFiles(j), 0, 0,
                                PctProcessingOf[TotalFiles(j)][i], "processing", fds))]
    /\ chunk_idx' = [chunk_idx EXCEPT ![j] = 0]
    /\ chunks' = [chunks EXCEPT ![j] = <<>>]
    /\ pc' = [pc EXCEPT ![j] = "process"]
    /\ UNCHANGED <<cfgVars, chunkVars, dispVars, dbVars, st_last, chatVars, pctVars, scope, connected, req, embedding, calls>>

\* await training_service.process_file(...), then the first chunk's embedding
\* event, or the completed event of a file without chunks
ProcessFile(j, disk) ==
    /\ pc[j] = "process"
    /\ LET file == req[j].files[file_idx[j]]
           res == ProcessFileResult(file, disk, chunk_size, chunk_overlap)
           log == <<[op |-> "process_file", file |-> file_idx[j], disk |-> disk,
                     extractor |-> res.extractor]>>
                  \o (IF res.chunked
                      THEN <<[op |-> "_chunk_text", file |-> file_idx[j]]>> ELSE <<>>)
       IN  IF res.raised
           THEN FailFile(j, log) /\ UNCHANGED <<chunks, chunk_idx>>
           ELSE IF res.hung
           THEN /\ pc' = [pc EXCEPT ![j] = "hung"]
                /\ calls' = [calls EXCEPT ![j] = @ \o log]
                /\ UNCHANGED <<chunks, chunk_idx, file_details, events>>
           ELSE /\ chunks' = [chunks EXCEPT ![j] = res.chunks]
                /\ IF res.chunks = <<>>
                   THEN FinishFile(j, res.chunks, log)
                   ELSE StartChunk(j, 1, res.chunks, log)
    /\ UNCHANGED <<cfgVars, chunkVars, dispVars, dbVars, st_last, chatVars, pctVars, scope, connected, req, file_idx, embedding>>

\* an embed step that goes on to the store call when the embedding call raised
EmbedSwallowsError(j, reply) ==
    /\ pc[j] = "embed"
    /\ LET chunk == chunks[j][chunk_idx[j]]
           res == GenerateEmbedding(chunk.text, reply)
           log == <<[op |-> "generate_embedding", file |-> file_idx[j],
                     chunk |-> chunk_idx[j], raised |-> res.raised]>>
       IN  /\ embedding' = [embedding EXCEPT ![j] = res.value]
           /\ calls' = [calls EXCEPT ![j] = @ \o log]
           /\ pc' = [pc EXCEPT ![j] = "store"]
           /\ UNCHANGED <<file_details, events>>
    /\ UNCHANGED <<cfgVars, chunkVars, dispVars, dbVars, st_last, chatVars, pctVars, scope, connected, req, file_idx,
                   chunk_idx, chunks>>

\* embedding = await training_service.generate_embedding(chunk["text"])
Embed(j, reply) ==
    /\ pc[j] = "embed"
    /\ LET chunk == chunks[j][chunk_idx[j]]
           res == GenerateEmbedding(chunk.text, reply)
           log == <<[op |-> "generate_embedding", file |-> file_idx[j],
                     chunk |-> chunk_idx[j], raised |-> res.raised]>>
       IN  IF res.raised
           THEN FailFile(j, log) /\ UNCHANGED embedding
           ELSE /\ embedding' = [embedding EXCEPT ![j] = res.value]
                /\ calls' = [calls EXCEPT ![j] = @ \o log]
                /\ pc' = [pc EXCEPT ![j] = "store"]
                /\ UNCHANGED <<file_details, events>>
    /\ UNCHANGED <<cfgVars, chunkVars, dispVars, dbVars, st_last, chatVars, pctVars, scope, connected, req, file_idx,
                   chunk_idx, chunks>>

\* a store step that stores chunk number k under index k instead of k - 1
StoreWrongIndex(j, ok) ==
    /\ pc[j] = "store"
    /\ LET chunk == chunks[j][chunk_idx[j]]
           file == req[j].files[file_idx[j]]
           log == <<[op |-> "store_embedding", file |-> file_idx[j],
                     chunk_index |-> chunk_idx[j], raised |-> ~ok]>>
           fds == [file_details[j] EXCEPT ![file_idx[j]].status = "storing"]
           total == Len(chunks[j])
       IN  IF ~ok
           THEN FailFile(j, log) /\ UNCHANGED dbVars
           ELSE /\ store' = Upsert(store, NewId(store), req[j].knowledge_base_id,
                                   req[j].version_id, file.id, chunk_idx[j],
                                   chunk.text, embedding[j], chunk.metadata, now + 1)
                /\ now' = now + 1
                /\ file_details' = [file_details EXCEPT ![j] = fds]
                /\ events' = [events EXCEPT ![j] = Append(@,
                       ProgressEvent(file_idx[j], TotalFiles(j), chunk_idx[j], total,
                                     PctChunkOf[TotalFiles(j)][file_idx[j]][total][chunk_idx[j]],
                                     "storing", fds))]
                /\ calls' = [calls EXCEPT ![j] = @ \o log]
                /\ pc' = [pc EXCEPT ![j] = "sleep"]
    /\ UNCHANGED <<cfgVars, chunkVars, dispVars, st_last, chatVars, pctVars, scope, connected, req, file_idx, chunk_idx,
                   chunks, embedding>>

\* await training_service.store_embedding(...), then the storing event
Store(j, ok) ==
    /\ pc[j] = "store"
    /\ LET chunk == chunks[j][chunk_idx[j]]
           file == req[j].files[file_idx[j]]
           log == <<[op |-> "store_embedding", file |-> file_idx[j],
                     chunk_index |-> chunk_idx[j] - 1, raised |-> ~ok]>>
           fds == [file_details[j] EXCEPT ![file_idx[j]].status = "storing"]
           total == Len(chunks[j])
       IN  IF ~ok
           THEN FailFile(j, log) /\ UNCHANGED dbVars
           ELSE /\ store' = Upsert(store, NewId(store), req[j].knowledge_base_id,
                                   req[j].version_id, file.id, chunk_idx[j] - 1,
                                   chunk.text, embedding[j], chunk.metadata, now + 1)
                /\ now' = now + 1
                /\ file_details' = [file_details EXCEPT ![j] = fds]
                /\ events' = [events EXCEPT ![j] = Append(@,
                       ProgressEvent(file_idx[j], TotalFiles(j), chunk_idx[j], total,
                                     PctChunkOf[TotalFiles(j)][file_idx[j]][total][chunk_idx[j]],
                                     "storing", fds))]
                /\ calls' = [calls EXCEPT ![j] = @ \o log]
                /\ pc' = [pc EXCEPT ![j] = "sleep"]
    /\ UNCHANGED <<cfgVars, chunkVars, dispVars, st_last, chatVars, pctVars, scope, connected, req, file_idx, chunk_idx,
                   chunks, embedding>>

\* await asyncio.sleep(0.1), then the next chunk's embedding event, or, after the
\* last chunk, the completed event
Sleep(j) ==
    /\ pc[j] = "sleep"
    /\ IF chunk_idx[j] < Len(chunks[j])
       THEN StartChunk(j, chunk_idx[j] + 1, chunks[j], <<>>)
       ELSE FinishFile(j, chunks[j], <<>>)
    /\ UNCHANGED <<cfgVars, chunkVars, dispVars, dbVars, st_last, chatVars, pctVars, scope, connected, req, file_idx,
                   chunks, embedding>>

\* a completion step that works its percentage out from the file count:
\* int((total_files / total_files) * 100) raises ZeroDivisionError for an empty
\* list, which the outer except turns into the job-level error event
CompleteDividesByFiles(j) ==
    /\ pc[j] = "next"
    /\ file_idx[j] = TotalFiles(j)
    /\ events' = [events EXCEPT ![j] = Append(@,
           IF TotalFiles(j) = 0 THEN JobErrorEvent ELSE CompleteEvent(TotalFiles(j)))]
    /\ pc' = [pc EXCEPT ![j] = IF TotalFiles(j) = 0 THEN "aborted" ELSE "done"]
    /\ UNCHANGED <<cfgVars, chunkVars, dispVars, dbVars, st_last, chatVars, pctVars, scope, connected, req, file_idx,
                   chunk_idx, chunks, embedding, file_details, calls>>

\* after the file loop: the complete event, and the generator ends
Complete(j) ==
    /\ pc[j] = "next"
    /\ file_idx[j] = TotalFiles(j)
    /\ events' = [events EXCEPT ![j] = Append(@, CompleteEvent(TotalFiles(j)))]
    /\ pc' = [pc EXCEPT ![j] = "done"]
    /\ UNCHANGED <<cfgVars, chunkVars, dispVars, dbVars, st_last, chatVars, pctVars, scope, connected, req, file_idx,
                   chunk_idx, chunks, embedding, file_details, calls>>

\* an outer except that goes on to the completion event after its error event
JobErrorThenComplete(j) ==
    /\ pc[j] = "next"
    /\ events' = [events EXCEPT
                     ![j] = Append(Append(@, JobErrorEvent), CompleteEvent(TotalFiles(j)))]
    /\ pc' = [pc EXCEPT ![j] = "aborted"]
    /\ UNCHANGED <<cfgVars, chunkVars, dispVars, dbVars, st_last, chatVars, pctVars, scope, connected, req,
                   file_idx, chunk_idx, chunks, embedding, file_details, calls>>

\* an exception outside the per-file try reaches the outer except: the job-level
\* error event, and the generator ends
JobError(j) ==
    /\ pc[j] = "next"
    /\ events' = [events EXCEPT ![j] = Append(@, JobErrorEvent)]
    /\ pc' = [pc EXCEPT ![j] = "aborted"]
    /\ UNCHANGED <<cfgVars, chunkVars, dispVars, dbVars, st_last, chatVars, pctVars, scope, connected, req,
                   file_idx, chunk_idx, chunks, embedding, file_details, calls>>

\* the suspension points of the generator: its yields and its awaits
Suspended == {"next", "process", "embed", "store", "sleep"}

\* a cancellation that the per-file except clause catches like any other exception
CancelCaught(j) ==
    /\ pc[j] \in Suspended
    /\ connected[j]
    /\ connected' = [connected EXCEPT ![j] = FALSE]
    /\ IF pc[j] = "next"
       THEN /\ pc' = [pc EXCEPT ![j] = "cancelled"]
            /\ UNCHANGED <<file_details, events, calls>>
       ELSE FailFile(j, <<>>)
    /\ UNCHANGED <<cfgVars, chunkVars, dispVars, dbVars, st_last, chatVars, pctVars, scope, req,
                   file_idx, chunk_idx, chunks, embedding>>

\* The consumer disconnects while the generator is suspended: the generator is
\* cancelled there (CancelledError at an await, GeneratorExit at a yield), which
\* neither except Exception clause catches, and it ends without another step.
Cancel(j) ==
    /\ pc[j] \in Suspended
    /\ connected[j]
    /\ connected' = [connected EXCEPT ![j] = FALSE]
    /\ pc' = [pc EXCEPT ![j] = "cancelled"]
    /\ UNCHANGED <<cfgVars, chunkVars, dispVars, dbVars, st_last, chatVars, pctVars, scope, req,
                   file_idx, chunk_idx, chunks, embedding, file_details, events, calls>>

InitJobs(n, maxFiles) ==
    /\ scope = [njobs |-> n, maxFiles |-> maxFiles]
    /\ req = [j \in 1..n |-> [knowledge_base_id |-> 0, version_id |-> 0, files |-> <<>>]]
    /\ pc = [j \in 1..n |-> "idle"]
    /\ file_idx = [j \in 1..n |-> 0]
    /\ chunk_idx = [j \in 1..n |-> 0]
    /\ chunks = [j \in 1..n |-> <<>>]
    /\ embedding = [j \in 1..n |-> <<>>]
    /\ file_details = [j \in 1..n |-> <<>>]
    /\ events = [j \in 1..n |-> <<>>]
    /\ calls = [j \in 1..n |-> <<>>]
    /\ connected = [j \in 1..n |-> TRUE]

Init ==
    /\ CfgDefault /\ ChunkIdle /\ DispIdle /\ DbIdle /\ ChatIdle /\ PctIdle
    /\ InitJobs(1, MaxFiles)

Next ==
    \/ \E j \in Jobs : \E r \in Requests(scope.maxFiles) : StartJob(j, r)
    \/ \E j \in Jobs : BeginFile(j)
    \/ \E j \in Jobs : \E disk \in DiskStates : ProcessFile(j, disk)
    \/ \E j \in Jobs : \E reply \in EmbedReplies : Embed(j, reply)
    \/ \E j \in Jobs : \E ok \in BOOLEAN : Store(j, ok)
    \/ \E j \in Jobs : Sleep(j)
    \/ \E j \in Jobs : Complete(j)
    \/ \E j \in Jobs : JobError(j)
    \/ \E j \in Jobs : Cancel(j)

Spec == Init /\ [][Next]_vars

(***************************************************************************)
(* One stream_training invocation whose consumer stays connected and in     *)
(* which nothing outside the per-file try raises: the steps the code of     *)
(* generate_progress itself takes.                                          *)
(***************************************************************************)
NextRun ==
    \/ \E j \in Jobs : \E r \in Requests(scope.maxFiles) : StartJob(j, r)
    \/ \E j \in Jobs : BeginFile(j)
    \/ \E j \in Jobs : \E disk \in DiskStates : ProcessFile(j, disk)
    \/ \E j \in Jobs : \E reply \in EmbedReplies : Embed(j, reply)
    \/ \E j \in Jobs : \E ok \in BOOLEAN : Store(j, ok)
    \/ \E j \in Jobs : Sleep(j)
    \/ \E j \in Jobs : Complete(j)

SpecRun == Init /\ [][NextRun]_vars

(***************************************************************************)
(* The same invocation on a TrainingService of any chunk size and overlap,  *)
(* with every step that can be taken eventually taken: each call returns or *)
(* raises, and the consumer keeps reading.                                  *)
(***************************************************************************)
InitLive ==
    /\ chunk_size \in 1..MaxW /\ chunk_overlap \in 0..MaxV
    /\ ChunkIdle /\ DispIdle /\ DbIdle /\ ChatIdle /\ PctIdle
    /\ InitJobs(1, MaxFiles)

SpecLive == InitLive /\ [][NextRun]_vars /\ WF_vars(NextRun)

(***************************************************************************)
(* Two stream_training invocations at once, of up to one file each,         *)
(* interleaved at their suspension points, against the one TrainingService  *)
(* instance and the one table.                                              *)
(***************************************************************************)
InitTwo ==
    /\ CfgDefault /\ ChunkIdle /\ DispIdle /\ DbIdle /\ ChatIdle /\ PctIdle
    /\ InitJobs(2, 1)

NextTwo ==
    \/ \E j \in Jobs : \E r \in Requests(scope.maxFiles) : StartJob(j, r)
    \/ \E j \in Jobs : BeginFile(j)
    \/ \E j \in Jobs : \E disk \in ConcDisks : ProcessFile(j, disk)
    \/ \E j \in Jobs : \E reply \in EmbedReplies : Embed(j, reply)
    \/ \E j \in Jobs : \E ok \in BOOLEAN : Store(j, ok)
    \/ \E j \in Jobs : Sleep(j)
    \/ \E j \in Jobs : Complete(j)

SpecTwo == InitTwo /\ [][NextTwo]_vars

(***************************************************************************)
(* Two stream_training invocations one after the other, of up to one file   *)
(* each, against the one table: the second starts when the first has ended, *)
(* and may ingest the same file again with another text on disk.           *)
(***************************************************************************)
InitSeq ==
    /\ CfgDefault /\ ChunkIdle /\ DispIdle /\ DbIdle /\ ChatIdle /\ PctIdle
    /\ InitJobs(2, 1)

StartAfter(j, r) ==
    /\ \A m \in 1..(j - 1) : pc[m] = "done"
    /\ StartJob(j, r)

NextSeq ==
    \/ \E j \in Jobs : \E r \in Requests(scope.maxFiles) : StartAfter(j, r)
    \/ \E j \in Jobs : BeginFile(j)
    \/ \E j \in Jobs : \E disk \in DiskStates : ProcessFile(j, disk)
    \/ \E j \in Jobs : \E reply \in EmbedReplies : Embed(j, reply)
    \/ \E j \in Jobs : \E ok \in BOOLEAN : Store(j, ok)
    \/ \E j \in Jobs : Sleep(j)
    \/ \E j \in Jobs : Complete(j)

SpecSeq == InitSeq /\ [][NextSeq]_vars

(***************************************************************************)
(* store_embedding called directly, with any arguments, against one table. *)
(***************************************************************************)
\* store_embedding calls in one run
MaxStoreCalls == 3

StoreArgs ==
    [knowledge_base_id : {1, 2}, version_id : {1, 2}, file_id : {1, 2},
     chunk_index : {0}, chunk_text : {<<"a">>, <<"a", "a">>}]

InitStore ==
    /\ store = {} /\ now = 0 /\ st_last = NoCall
    /\ CfgDefault /\ ChunkIdle /\ DispIdle /\ ChatIdle /\ PctIdle /\ JobIdle

StoreEmbedding(a) ==
    /\ now < MaxStoreCalls
    /\ LET emb == VectorOf(a.chunk_text)
           metadata == [chunk_start |-> 0, chunk_end |-> chunk_size,
                        file_id |-> a.file_id,
                        mime_type |-> IF a.chunk_text = <<"a">> THEN "text/plain"
                                      ELSE "application/pdf"]
       IN  /\ store' = Upsert(store, NewId(store), a.knowledge_base_id, a.version_id,
                              a.file_id, a.chunk_index, a.chunk_text, emb, metadata,
                              now + 1)
           /\ st_last' = [called |-> TRUE,
                          conflict |-> \E r \in store :
                              SameKey(r, a.version_id, a.file_id, a.chunk_index),
                          before |-> store,
                          knowledge_base_id |-> a.knowledge_base_id,
                          version_id |-> a.version_id, file_id |-> a.file_id,
                          chunk_index |-> a.chunk_index, chunk_text |-> a.chunk_text,
                          embedding |-> emb, metadata |-> metadata]
    /\ now' = now + 1
    /\ UNCHANGED <<cfgVars, chunkVars, dispVars, chatVars, pctVars, jobVars>>

NextStore == \E a \in StoreArgs : StoreEmbedding(a)

SpecStore == InitStore /\ [][NextStore]_vars

(***************************************************************************)
(* The percentages of the events of one job of up to MaxPctFiles files, in *)
(* the order generate_progress yields them: the same loop as above, kept   *)
(* to the counters the percentages are computed from.                      *)
(***************************************************************************)
MaxPctFiles == 50
MaxPctChunks == 2

\* an event that carries a percentage
PctYield(p) == p_prev' = p_cur /\ p_cur' = p

InitPct ==
    /\ p_F \in 1..MaxPctFiles
    /\ p_pc = "next" /\ p_i = 0 /\ p_C = 0 /\ p_j = 0 /\ p_prev = 0 /\ p_cur = 0
    /\ CfgDefault /\ ChunkIdle /\ DispIdle /\ DbIdle /\ ChatIdle /\ JobIdle

\* the processing event of the next file
PctBeginFile ==
    /\ p_pc = "next" /\ p_i < p_F
    /\ p_i' = p_i + 1
    /\ PctYield(PctProcessing(p_i + 1, p_F))
    /\ p_pc' = "process"
    /\ p_C' = 0 /\ p_j' = 0
    /\ UNCHANGED <<cfgVars, chunkVars, dispVars, dbVars, st_last, chatVars, jobVars, p_F>>

\* process_file raises (an error event, which carries no percentage), or gives C
\* chunks and the first embedding event follows
PctProcessFile(raised, C) ==
    /\ p_pc = "process"
    /\ IF raised
       THEN p_pc' = "next" /\ UNCHANGED <<p_C, p_j, p_prev, p_cur>>
       ELSE /\ p_C' = C /\ p_j' = 1
            /\ PctYield(PctChunk(p_i, p_F, 1, C))
            /\ p_pc' = "embed"
    /\ UNCHANGED <<cfgVars, chunkVars, dispVars, dbVars, st_last, chatVars, jobVars, p_F, p_i>>

\* the embed and store calls of chunk p_j: one of them raises, or the storing
\* event follows
PctEmbedStore(raised) ==
    /\ p_pc = "embed"
    /\ IF raised
       THEN p_pc' = "next" /\ UNCHANGED <<p_prev, p_cur>>
       ELSE PctYield(PctChunk(p_i, p_F, p_j, p_C)) /\ p_pc' = "sleep"
    /\ UNCHANGED <<cfgVars, chunkVars, dispVars, dbVars, st_last, chatVars, jobVars, p_F, p_i,
                   p_C, p_j>>

\* the next chunk's embedding event, or the completed event
PctSleep ==
    /\ p_pc = "sleep"
    /\ IF p_j < p_C
       THEN /\ p_j' = p_j + 1
            /\ PctYield(PctChunk(p_i, p_F, p_j + 1, p_C))
            /\ p_pc' = "embed"
       ELSE /\ p_j' = p_j
            /\ PctYield(PctCompleted(p_i, p_F))
            /\ p_pc' = "next"
    /\ UNCHANGED <<cfgVars, chunkVars, dispVars, dbVars, st_last, chatVars, jobVars, p_F, p_i, p_C>>

\* the complete event
PctComplete ==
    /\ p_pc = "next" /\ p_i = p_F
    /\ PctYield(100)
    /\ p_pc' = "done"
    /\ UNCHANGED <<cfgVars, chunkVars, dispVars, dbVars, st_last, chatVars, jobVars, p_F, p_i,
                   p_C, p_j>>

NextPct ==
    \/ PctBeginFile
    \/ \E raised \in BOOLEAN : \E C \in 1..MaxPctChunks : PctProcessFile(raised, C)
    \/ \E raised \in BOOLEAN : PctEmbedStore(raised)
    \/ PctSleep
    \/ PctComplete

SpecPct == InitPct /\ [][NextPct]_vars

(***************************************************************************)
(* OllamaClient.stream_chat.  An upstream line is [ws, prefix, body]: ws   *)
(* tells whether whitespace surrounds it, prefix whether it starts with    *)
(* "data: ", and body is what follows: nothing, a sentinel token, text     *)
(* that is no JSON, or a JSON value.  A JSON string is a sequence of       *)
(* tokens, of which "data: " is one.                                       *)
(***************************************************************************)
JNum == [t |-> "num"]
JNull == [t |-> "null"]
JStr(tokens) == [t |-> "str", s |-> tokens]
JArr(items) == [t |-> "arr", a |-> items]
JObj(fields) == [t |-> "obj", f |-> fields]

\* {"message": {"content": <content>}}
Message(content) == JObj([message |-> JObj([content |-> content])])

\* lines of the expected structure
GoodValues ==
    {Message(JStr(<<"a">>)), Message(JStr(<<"b">>)),
     Message(JStr(<<"a", "data: ", "b">>))}

\* lines that are JSON of another structure
OtherValues ==
    {JNum, JNull, JStr(<<"a">>), JStr(<<"message">>), JArr(<<>>),
     JArr(<<JStr(<<"message">>)>>), JObj(<<>>),
     JObj([message |-> JNull]), JObj([message |-> JStr(<<"content">>)]),
     JObj([message |-> JObj(<<>>)]), Message(JNum)}

EmptyBody == [k |-> "empty"]
SentinelBody(token) == [k |-> "sentinel", token |-> token]
GarbageBody == [k |-> "garbage"]
JsonBody(v) == [k |-> "json", v |-> v]

Line(ws, prefix, body) == [ws |-> ws, prefix |-> prefix, body |-> body]

UpstreamLines ==
    {Line(FALSE, FALSE, b) :
        b \in {EmptyBody, GarbageBody}
              \cup {SentinelBody(t) : t \in {"[DONE]", "done", "DONE"}}
              \cup {JsonBody(v) : v \in GoodValues \cup OtherValues}}
    \cup {Line(FALSE, TRUE, b) :
        b \in {SentinelBody("[DONE]"), GarbageBody, JsonBody(JNum)}
              \cup {JsonBody(v) : v \in GoodValues}}
    \cup {Line(TRUE, FALSE, b) :
        b \in {EmptyBody, SentinelBody("[DONE]"), JsonBody(Message(JStr(<<"a">>)))}}

\* line.replace("data: ", "") on the text after the prefix: every occurrence goes
RECURSIVE ReplaceData(_)
ReplaceData(v) ==
    IF v.t = "str" THEN JStr(SelectSeq(v.s, LAMBDA c : c # "data: "))
    ELSE IF v.t = "arr" THEN JArr([k \in DOMAIN v.a |-> ReplaceData(v.a[k])])
    ELSE IF v.t = "obj" THEN JObj([key \in DOMAIN v.f |-> ReplaceData(v.f[key])])
    ELSE v

\* key in v: [raised, value]
PyIn(key, v) ==
    IF v.t = "obj" THEN [raised |-> FALSE, value |-> key \in DOMAIN v.f]
    ELSE IF v.t = "str"
    THEN [raised |-> FALSE, value |-> \E k \in DOMAIN v.s : v.s[k] = key]
    ELSE IF v.t = "arr"
    THEN [raised |-> FALSE, value |-> \E k \in DOMAIN v.a : v.a[k] = JStr(<<key>>)]
    ELSE [raised |-> TRUE, value |-> FALSE]

\* v[key] raises TypeError unless v is a dict
PyIndexRaises(v) == v.t # "obj"

\* line.strip()
TrimLine(raw) == [raw EXCEPT !.ws = FALSE]

\* One line of the async for loop: what the generator does with it.
\* do is "skip" (continue), "break", "raise" (an exception leaves the generator),
\* "yield" (of delta) or "pass" (parsed, nothing to yield).
HandleLine(raw) ==
    LET skip == [do |-> "skip", delta |-> JNull]
        line == TrimLine(raw)
    IN  IF line.body.k = "empty" /\ ~line.prefix THEN skip
        ELSE IF line.body.k = "sentinel" THEN [do |-> "break", delta |-> JNull]
        ELSE IF line.body.k # "json" THEN skip
        ELSE LET data == IF line.prefix THEN ReplaceData(line.body.v) ELSE line.body.v
                 hasMessage == PyIn("message", data)
             IN  IF hasMessage.raised THEN [do |-> "raise", delta |-> JNull]
                 ELSE IF ~hasMessage.value THEN [do |-> "pass", delta |-> JNull]
                 ELSE IF PyIndexRaises(data) THEN [do |-> "raise", delta |-> JNull]
                 ELSE LET message == data.f["message"]
                          hasContent == PyIn("content", message)
                      IN  IF hasContent.raised THEN [do |-> "raise", delta |-> JNull]
                          ELSE IF ~hasContent.value THEN [do |-> "pass", delta |-> JNull]
                          ELSE IF PyIndexRaises(message)
                          THEN [do |-> "raise", delta |-> JNull]
                          ELSE [do |-> "yield", delta |-> message.f["content"]]

\* upstream lines of one reply
MaxLines == 2

InitChat ==
    /\ ch_lines \in SeqsUpTo(UpstreamLines, MaxLines)
    /\ ch_pos = 0 /\ ch_out = <<>> /\ ch_pc = "streaming"
    /\ RelayIdle
    /\ CfgDefault /\ ChunkIdle /\ DispIdle /\ DbIdle /\ PctIdle /\ JobIdle

\* the next line arrives and the loop body runs on it
ChatLine ==
    /\ ch_pc = "streaming"
    /\ ch_pos < Len(ch_lines)
    /\ LET h == HandleLine(ch_lines[ch_pos + 1])
       IN  /\ ch_out' = IF h.do = "yield" THEN Append(ch_out, h.delta) ELSE ch_out
           /\ ch_pc' = IF h.do = "break" THEN "done"
                       ELSE IF h.do = "raise" THEN "raised"
                       ELSE "streaming"
    /\ ch_pos' = ch_pos + 1
    /\ UNCHANGED <<cfgVars, chunkVars, dispVars, dbVars, st_last, pctVars, jobVars,
                   ch_lines, relayVars>>

\* the upstream reply ends
ChatEnd ==
    /\ ch_pc = "streaming"
    /\ ch_pos = Len(ch_lines)
    /\ ch_pc' = "done"
    /\ UNCHANGED <<cfgVars, chunkVars, dispVars, dbVars, st_last, pctVars, jobVars,
                   ch_lines, ch_pos, ch_out, relayVars>>

NextChat == ChatLine \/ ChatEnd

SpecChat == InitChat /\ [][NextChat]_vars

(***************************************************************************)
(* The relays of chat_routes.py around stream_chat: stream_chat_sse ("sse"), *)
(* stream_chat_response ("text") and the generator of legacy_chat_stream    *)
(* ("legacy").  A relay reacts at once to what the generator does: a delta, *)
(* its end, or an exception.                                                *)
(***************************************************************************)
Relays == {"sse", "text", "legacy"}

\* f"data: {json.dumps({'content': chunk})}\n\n"
ContentFrame(delta) == [frame |-> "content", content |-> delta]
\* "data: [DONE]\n\n"
DoneFrame == [frame |-> "done"]
\* f"data: {json.dumps({'error': str(e)})}\n\n"
ErrorFrame(e) == [frame |-> "error", error |-> e]
\* f"Error: {str(e)}"
ErrorText(e) == JStr(<<"Error: ", e>>)

\* chunk + "\n": TypeError unless chunk is a str
AddNewline(chunk) ==
    IF chunk.t = "str"
    THEN [raised |-> FALSE, value |-> JStr(chunk.s \o <<"\n">>)]
    ELSE [raised |-> TRUE, value |-> JNull]

\* the body of the relay's async for, on one delta
RelayOnDelta(kind, out, delta) ==
    IF kind = "sse" THEN [out |-> Append(out, ContentFrame(delta)), pc |-> "run"]
    ELSE IF kind = "text" THEN [out |-> Append(out, delta), pc |-> "run"]
    ELSE LET line == AddNewline(delta)
         IN  IF line.raised THEN [out |-> out, pc |-> "raised"]
             ELSE [out |-> Append(out, line.value), pc |-> "run"]

\* the generator ended: what follows the relay's async for
RelayOnEnd(kind, out) ==
    IF kind = "sse" THEN [out |-> Append(out, DoneFrame), pc |-> "done"]
    ELSE [out |-> out, pc |-> "done"]

\* an except clause after which the end signal is still sent
RelayOnRaiseThenDone(kind, out, e) ==
    IF kind = "sse"
    THEN [out |-> Append(Append(out, ErrorFrame(e)), DoneFrame), pc |-> "done"]
    ELSE IF kind = "text" THEN [out |-> Append(out, ErrorText(e)), pc |-> "done"]
    ELSE [out |-> out, pc |-> "raised"]

\* the generator raised e: the relay's except clause, where it has one
RelayOnRaise(kind, out, e) ==
    IF kind = "sse" THEN [out |-> Append(out, ErrorFrame(e)), pc |-> "done"]
    ELSE IF kind = "text" THEN [out |-> Append(out, ErrorText(e)), pc |-> "done"]
    ELSE [out |-> out, pc |-> "raised"]

InitRelay ==
    /\ ch_lines \in SeqsUpTo(UpstreamLines, MaxLines)
    /\ ch_pos = 0 /\ ch_out = <<>> /\ ch_pc = "streaming"
    /\ r_kind \in Relays /\ r_out = <<>> /\ r_pc = "run"
    /\ CfgDefault /\ ChunkIdle /\ DispIdle /\ DbIdle /\ PctIdle /\ JobIdle

\* the next upstream line arrives: the generator's loop body runs on it, and the
\* relay reacts
RelayLine ==
    /\ r_pc = "run" /\ ch_pc = "streaming"
    /\ ch_pos < Len(ch_lines)
    /\ LET h == HandleLine(ch_lines[ch_pos + 1])
           r == IF h.do = "yield" THEN RelayOnDelta(r_kind, r_out, h.delta)
                ELSE IF h.do = "break" THEN RelayOnEnd(r_kind, r_out)
                ELSE IF h.do = "raise" THEN RelayOnRaise(r_kind, r_out, "TypeError")
                ELSE [out |-> r_out, pc |-> r_pc]
       IN  /\ ch_out' = IF h.do = "yield" THEN Append(ch_out, h.delta) ELSE ch_out
           /\ ch_pc' = IF h.do = "break" THEN "done"
                       ELSE IF h.do = "raise" THEN "raised"
                       ELSE "streaming"
           /\ r_out' = r.out
           /\ r_pc' = r.pc
    /\ ch_pos' = ch_pos + 1
    /\ UNCHANGED <<cfgVars, chunkVars, dispVars, dbVars, st_last, pctVars, jobVars,
                   ch_lines, r_kind>>

\* the upstream reply ends
RelayEnd ==
    /\ r_pc = "run" /\ ch_pc = "streaming"
    /\ ch_pos = Len(ch_lines)
    /\ ch_pc' = "done"
    /\ LET r == RelayOnEnd(r_kind, r_out)
       IN  r_out' = r.out /\ r_pc' = r.pc
    /\ UNCHANGED <<cfgVars, chunkVars, dispVars, dbVars, st_last, pctVars, jobVars,
                   ch_lines, ch_pos, ch_out, r_kind>>

\* the connection to the upstream fails (client.stream or aiter_lines raises): the
\* exception leaves stream_chat
RelayTransportError ==
    /\ r_pc = "run" /\ ch_pc = "streaming"
    /\ ch_pc' = "failed"
    /\ LET r == RelayOnRaise(r_kind, r_out, "transport")
       IN  r_out' = r.out /\ r_pc' = r.pc
    /\ UNCHANGED <<cfgVars, chunkVars, dispVars, dbVars, st_last, pctVars, jobVars,
                   ch_lines, ch_pos, ch_out, r_kind>>

NextRelay == RelayLine \/ RelayEnd \/ RelayTransportError

SpecRelay == InitRelay /\ [][NextRelay]_vars

(***************************************************************************)
(* Properties.                                                             *)
(***************************************************************************)
Indices(q) == 1..Len(q)

\* the calls of job j for file number p whose operation is in ops
CallsOf(j, p, ops) ==
    {k \in Indices(calls[j]) : calls[j][k].op \in ops /\ calls[j][k].file = p}

\* the error events of job j for file number p
ErrorsOf(j, p) ==
    {k \in Indices(events[j]) :
        /\ events[j][k].type = "error"
        /\ "current_file" \in DOMAIN events[j][k]
        /\ events[j][k].current_file = p}

BlankDisk(disk) == disk.exists /\ disk.readable /\ Strip(disk.text) = <<>>

\* extraction of file number p of job j failed: the file was missing, the
\* extractor raised, or the text was empty or blank
ExtractionFailed(j, p) ==
    \E k \in CallsOf(j, p, {"process_file"}) :
        LET disk == calls[j][k].disk
        IN  ~disk.exists \/ ~disk.readable \/ BlankDisk(disk)

\* an embed or store call of file number p of job j raised
CallRaised(j, p) ==
    \E k \in CallsOf(j, p, {"generate_embedding", "store_embedding"}) :
        calls[j][k].raised

\* C1: per-file error isolation.  In a finished job every file has been visited;
\* a file whose extraction failed has exactly one error event and is failed; every
\* other file whose embed and store calls all succeeded is completed, also after
\* a failed file, and has no error event.
C1_ErrorIsolation ==
    \A j \in Jobs :
        pc[j] = "done" =>
            /\ Len(file_details[j]) = TotalFiles(j)
            /\ \A p \in 1..TotalFiles(j) :
                /\ ExtractionFailed(j, p) =>
                      /\ Cardinality(ErrorsOf(j, p)) = 1
                      /\ file_details[j][p].status = "failed"
                /\ (~ExtractionFailed(j, p) /\ ~CallRaised(j, p)) =>
                      /\ CallsOf(j, p, {"process_file"}) # {}
                      /\ ErrorsOf(j, p) = {}
                      /\ file_details[j][p].status = "completed"

C1_Witness ==
    \E j \in Jobs :
        /\ pc[j] = "done" /\ TotalFiles(j) >= 2
        /\ ExtractionFailed(j, 1)
        /\ ~ExtractionFailed(j, 2) /\ ~CallRaised(j, 2)
        /\ file_details[j][2].status = "completed"

\* C2: the percentage of each event that carries one is at least the percentage
\* of the event with a percentage before it.
C2_PercentageNonDecreasing == p_prev <= p_cur

\* C4: the table holds at most one row per (version, file, chunk index); a
\* store_embedding call under a key the table already holds leaves the number of
\* rows as it was, and the row of that key then has the text, embedding and
\* metadata of the call.
C4_IdempotentUpsert ==
    /\ \A r1, r2 \in store :
          SameKey(r1, r2.knowledge_base_version_id, r2.knowledge_base_file_id,
                  r2.chunk_index) => r1 = r2
    /\ (st_last.called /\ st_last.conflict) =>
          /\ Cardinality(store) = Cardinality(st_last.before)
          /\ \A r \in store :
                SameKey(r, st_last.version_id, st_last.file_id, st_last.chunk_index) =>
                    /\ r.chunk_text = st_last.chunk_text
                    /\ r.embedding = st_last.embedding
                    /\ r.metadata = st_last.metadata

C4_Witness ==
    /\ st_last.called /\ st_last.conflict
    /\ Cardinality(store) >= 2
    /\ \E r \in st_last.before :
          /\ SameKey(r, st_last.version_id, st_last.file_id, st_last.chunk_index)
          /\ r.chunk_text # st_last.chunk_text
          /\ r.metadata # st_last.metadata

\* a line of the expected structure {"message": {"content": <string>}}
WellFormed(line) ==
    /\ line.body.k = "json"
    /\ line.body.v.t = "obj"
    /\ "message" \in DOMAIN line.body.v.f
    /\ line.body.v.f["message"].t = "obj"
    /\ "content" \in DOMAIN line.body.v.f["message"].f
    /\ line.body.v.f["message"].f["content"].t = "str"

IsSentinel(line) == line.body.k = "sentinel"

\* the lines before the first sentinel
BeforeSentinel(lines) ==
    LET at == {k \in Indices(lines) : IsSentinel(lines[k])}
    IN  IF at = {} THEN lines ELSE SubSeq(lines, 1, Min(at) - 1)

\* the content fields of the well-formed lines before the first sentinel
ExpectedDeltas(lines) ==
    LET good == SelectSeq(BeforeSentinel(lines), WellFormed)
    IN  [k \in DOMAIN good |-> good[k].body.v.f["message"].f["content"]]

\* C5: when the generator has ended it has yielded, in order, exactly the content
\* fields of the well-formed lines before the first sentinel.
C5_YieldsContentsBeforeSentinel ==
    ch_pc \in {"done", "raised"} => ch_out = ExpectedDeltas(ch_lines)

\* C6: no line makes the generator raise, and a line that is not of the expected
\* structure yields nothing: the deltas yielded so far are as many as the
\* well-formed lines read before the first sentinel.
C6_MalformedSkipped ==
    /\ ch_pc # "raised"
    /\ Len(ch_out) = Len(ExpectedDeltas(SubSeq(ch_lines, 1, ch_pos)))

CeilDiv(a, b) == (a + b - 1) \div b

\* C3, as claimed: with 0 <= V < W a finished run has visited
\* ceil(max(0, L - V) / (W - V)) windows, the k-th at offset (k - 1) * (W - V).
C3_WindowCountAsClaimed ==
    (ck_pc = "done" /\ chunk_overlap < chunk_size) =>
        LET L == Len(ck_text)
            step == chunk_size - chunk_overlap
        IN  /\ Len(ck_visited) =
                  CeilDiv(IF L - chunk_overlap > 0 THEN L - chunk_overlap ELSE 0, step)
            /\ \A k \in Indices(ck_visited) : ck_visited[k] = (k - 1) * step

\* C3, amended: with 0 <= V < W a finished run has visited ceil(L / (W - V))
\* windows, the k-th at offset (k - 1) * (W - V); the windows whose trimmed content
\* is empty are visited and not emitted.
C3_WindowCount ==
    (ck_pc = "done" /\ chunk_overlap < chunk_size) =>
        LET L == Len(ck_text)
            step == chunk_size - chunk_overlap
        IN  /\ Len(ck_visited) = CeilDiv(L, step)
            /\ \A k \in Indices(ck_visited) : ck_visited[k] = (k - 1) * step
            /\ Len(ck_chunks) <= Len(ck_visited)

C3_Witness ==
    /\ ck_pc = "done"
    /\ 0 < chunk_overlap /\ chunk_overlap < chunk_size
    /\ Len(ck_visited) >= 3
    /\ Len(ck_chunks) < Len(ck_visited)
    /\ ck_chunks # <<>>

\* C7: a configuration with W - V <= 0 is rejected instead of looping: on a text
\* that is not empty the chunker's loop makes no more iterations than the text has
\* characters, as every loop that advances and ends does.
C7_BadConfigRejected ==
    (chunk_size - chunk_overlap <= 0 /\ ck_text # <<>>) =>
        Len(ck_visited) <= Len(ck_text)

\* C8: a file whose extracted text is empty or blank is failed by process_file
\* before the chunker is entered: the job makes no chunker, embed or store call
\* for it and its FileDetail is failed.
C8_BlankTextFails ==
    \A j \in Jobs : \A k \in Indices(calls[j]) :
        (calls[j][k].op = "process_file" /\ BlankDisk(calls[j][k].disk)) =>
            /\ CallsOf(j, calls[j][k].file,
                       {"_chunk_text", "generate_embedding", "store_embedding"}) = {}
            /\ file_details[j][calls[j][k].file].status = "failed"

C8_Witness ==
    \E j \in Jobs : \E k \in Indices(calls[j]) :
        /\ calls[j][k].op = "process_file"
        /\ calls[j][k].disk.exists /\ calls[j][k].disk.readable
        /\ calls[j][k].disk.text = <<" ">>
        /\ pc[j] = "done"

\* the format an extension names, and the format a media type names
FormatOfExt(ext) ==
    IF ext = ".pdf" THEN "pdf"
    ELSE IF ext \in {".docx", ".doc"} THEN "docx"
    ELSE IF ext \in {".xlsx", ".xls"} THEN "excel"
    ELSE IF ext = ".csv" THEN "csv"
    ELSE IF ext = ".json" THEN "json"
    ELSE IF ext \in {".txt", ".md"} THEN "text"
    ELSE "none"

FormatOfMime(mime) ==
    IF mime = "application/pdf" THEN "pdf"
    ELSE IF mime \in {WordML, "application/msword"} THEN "docx"
    ELSE IF mime \in {SheetML, "application/vnd.ms-excel"} THEN "excel"
    ELSE IF mime = "text/csv" THEN "csv"
    ELSE IF mime = "application/json" THEN "json"
    ELSE IF mime \in {"text/plain", "text/markdown"} THEN "text"
    ELSE "none"

\* C9: the extension is matched first and the media type second: when the two name
\* different known formats the extension's extractor is used, and when neither
\* names a known format the file is read as plain text.
C9_ExtensionWins ==
    d_used # "idle" =>
        LET byExt == FormatOfExt(Lower(d_ext))
            byMime == FormatOfMime(d_mime)
        IN  /\ (byExt # "none" /\ byMime # "none" /\ byExt # byMime) => d_used = byExt
            /\ (byExt = "none" /\ byMime = "none") => d_used = "text"

\* the events of a job that carry the FileDetail list
HasDetails(e) == "file_details" \in DOMAIN e

StatusSteps ==
    {<<"processing", "embedding">>, <<"embedding", "storing">>,
     <<"storing", "embedding">>, <<"storing", "completed">>,
     <<"processing", "failed">>, <<"embedding", "failed">>, <<"storing", "failed">>}

\* C10: from one event to the next a file's status either takes one of the steps
\* of StatusSteps or is completed or failed and stays as it is; no file is given
\* to process_file twice.
C10_StatusTransitions ==
    \A j \in Jobs :
        /\ \A k \in 1..(Len(events[j]) - 1) :
              (HasDetails(events[j][k]) /\ HasDetails(events[j][k + 1])) =>
                  \A p \in Indices(events[j][k].file_details) :
                      LET old == events[j][k].file_details[p].status
                          new == events[j][k + 1].file_details[p].status
                      IN  \/ <<old, new>> \in StatusSteps
                          \/ old = new /\ old \in {"completed", "failed"}
        /\ \A p \in Indices(file_details[j]) :
              Cardinality(CallsOf(j, p, {"process_file"})) <= 1

C10_Witness ==
    \E j \in Jobs :
        /\ pc[j] = "done"
        /\ Len(file_details[j]) >= 2
        /\ file_details[j][1].status = "completed"
        /\ file_details[j][2].status = "failed"
        /\ \E k \in 1..(Len(events[j]) - 1) :
              /\ HasDetails(events[j][k + 1])
              /\ events[j][k].file_details[1].status = "storing"
              /\ events[j][k + 1].file_details[1].status = "embedding"

\* the events that end a job's stream: the complete event and the job-level error
IsTerminal(e) == e.type = "complete" \/ e = JobErrorEvent

TerminalsOf(j) == {k \in Indices(events[j]) : IsTerminal(events[j][k])}

\* C11: a job's stream has at most one terminal event, it is the last event and
\* the generator has ended with it; a generator that ended after its file loop has
\* emitted the complete event with percentage 100 after visiting every file, with
\* whatever number of failed files; one that ended in the outer except has emitted
\* the job-level error event and no complete event.
C11_OneTerminalEvent ==
    \A j \in Jobs :
        /\ TerminalsOf(j) \subseteq {Len(events[j])}
        /\ TerminalsOf(j) # {} => pc[j] \in {"done", "aborted"}
        /\ pc[j] = "done" =>
              /\ TerminalsOf(j) # {}
              /\ events[j][Len(events[j])].type = "complete"
              /\ events[j][Len(events[j])].percentage = 100
              /\ Len(file_details[j]) = TotalFiles(j)
              /\ \A p \in Indices(file_details[j]) :
                    file_details[j][p].status \in {"completed", "failed"}
        /\ pc[j] = "aborted" =>
              /\ TerminalsOf(j) # {}
              /\ events[j][Len(events[j])] = JobErrorEvent
              /\ \A k \in Indices(events[j]) : events[j][k].type # "complete"

C11_Witness ==
    \E j \in Jobs :
        /\ pc[j] = "done" /\ connected[j]
        /\ TotalFiles(j) >= 2
        /\ file_details[j][1].status = "failed"
        /\ file_details[j][2].status = "completed"
        /\ events[j][Len(events[j])].type = "complete"

\* the frames of the deltas the generator has yielded
ContentFrames == [k \in Indices(ch_out) |-> ContentFrame(ch_out[k])]

\* C12: stream_chat_sse has yielded one content frame per delta, in order; when it
\* has ended, exactly one more frame follows them: the [DONE] frame if the
\* generator ended without an exception, an error frame if it raised.  It never
\* lets the exception through.
C12_SseFrames ==
    r_kind = "sse" =>
        /\ r_pc \in {"run", "done"}
        /\ r_pc = "run" => r_out = ContentFrames
        /\ r_pc = "done" =>
              /\ Len(r_out) = Len(ch_out) + 1
              /\ SubSeq(r_out, 1, Len(ch_out)) = ContentFrames
              /\ ch_pc \in {"done", "raised", "failed"}
              /\ ch_pc = "done" => r_out[Len(r_out)] = DoneFrame
              /\ ch_pc \in {"raised", "failed"} => r_out[Len(r_out)].frame = "error"

C12_Witness ==
    /\ r_kind = "sse" /\ r_pc = "done"
    /\ ch_pc = "failed"
    /\ Len(ch_out) >= 1
    /\ r_out[Len(r_out)] = ErrorFrame("transport")

\* C13: a plain-text relay forwards each delta followed by a newline: the k-th
\* thing it yields is the k-th delta with "\n" appended.
C13_PlainTextNewlines ==
    r_kind \in {"text", "legacy"} =>
        \A k \in Indices(ch_out) :
            (ch_out[k].t = "str" /\ k <= Len(r_out)) =>
                r_out[k] = JStr(ch_out[k].s \o <<"\n">>)

\* C14: when the upstream fails, a plain-text relay ends normally and the last
\* thing it has yielded is the inline error string.
C14_PlainTextInlineError ==
    (r_kind \in {"text", "legacy"} /\ ch_pc = "failed") =>
        /\ r_pc = "done"
        /\ r_out # <<>>
        /\ r_out[Len(r_out)] = ErrorText("transport")

EmbedStore == {"generate_embedding", "store_embedding"}

\* the completed events of job j for file number p
CompletedOf(j, p) ==
    {k \in Indices(events[j]) :
        /\ events[j][k].type = "progress"
        /\ events[j][k].status = "completed"
        /\ events[j][k].current_file = p}

\* what holds of a file number p of job j one of whose embed or store calls raised
FailedInChunks(j, p) ==
    /\ \A k \in CallsOf(j, p, EmbedStore) :
          calls[j][k].raised => k = Max(CallsOf(j, p, EmbedStore))
    /\ file_details[j][p].status = "failed"
    /\ Cardinality(ErrorsOf(j, p)) = 1
    /\ CompletedOf(j, p) = {}
    /\ \A k \in CallsOf(j, p, {"store_embedding"}) :
          ~calls[j][k].raised =>
              \E r \in store : SameKey(r, req[j].version_id, req[j].files[p].id,
                                       calls[j][k].chunk_index)
    /\ pc[j] = "done" => Len(file_details[j]) = TotalFiles(j)

\* the step of job j in which an embed or store call raises
RaisingStep(j) ==
    /\ Len(calls'[j]) = Len(calls[j]) + 1
    /\ calls'[j][Len(calls'[j])].op \in EmbedStore
    /\ calls'[j][Len(calls'[j])].raised

\* C15: when the embed or store call of a chunk raises, that call is the last embed
\* or store call of the file, the file is failed, it has exactly one error event
\* and no completed event, the rows stored for its earlier chunks are in the table,
\* and the job goes on to the next file; the step in which the call raises leaves
\* the table as it was.
C15_ChunkFailure ==
    /\ [](\A j \in Jobs : \A p \in Indices(file_details[j]) :
             CallRaised(j, p) => FailedInChunks(j, p))
    /\ [][\A j \in Jobs : RaisingStep(j) => (store' = store /\ pc'[j] = "next")]_vars

C15_Witness ==
    \E j \in Jobs :
        /\ pc[j] = "done" /\ TotalFiles(j) >= 2
        /\ \E k \in CallsOf(j, 1, {"store_embedding"}) :
              calls[j][k].raised /\ calls[j][k].chunk_index = 1
        /\ \E r \in store : SameKey(r, req[j].version_id, req[j].files[1].id, 0)
        /\ file_details[j][1].status = "failed"
        /\ file_details[j][2].status = "completed"

\* C16: once the consumer of a job has disconnected, no step starts a call of that
\* job or changes a FileDetail of it (the disconnect marks no file failed), and
\* every row of the table stays.
C16_Cancellation ==
    [][\A j \in Jobs :
          ~connected'[j] =>
              /\ calls'[j] = calls[j]
              /\ file_details'[j] = file_details[j]
              /\ \A r \in store : r \in store']_vars

C16_Witness ==
    \E j \in Jobs :
        /\ ~connected[j]
        /\ store # {}
        /\ file_details[j][file_idx[j]].status = "embedding"
        /\ chunk_idx[j] = 2

\* C17: generate_embedding never returns an empty vector: the embedding a job is
\* about to pass to store_embedding is not empty, and no row of the table has an
\* empty embedding.
C17_NoEmptyEmbedding ==
    /\ \A j \in Jobs : pc[j] = "store" => embedding[j] # <<>>
    /\ \A r \in store : r.embedding # <<>>

\* C19: with 0 <= V < W every emitted chunk records offsets inside the text that
\* are the bounds of its slice: 0 <= chunk_start < chunk_end <= len(text), its
\* text is text[chunk_start:chunk_end], and chunk_end - chunk_start is W for every
\* chunk but the last.
C19_ChunkOffsets ==
    chunk_overlap < chunk_size =>
        \A k \in Indices(ck_chunks) :
            LET c == ck_chunks[k]
                s == c.metadata.chunk_start
                e == c.metadata.chunk_end
            IN  /\ 0 <= s /\ s < e /\ e <= Len(ck_text)
                /\ c.text = PySlice(ck_text, s, e)
                /\ k < Len(ck_chunks) => e - s = chunk_size

LastOf(q) == q[Len(q)]

\* the log of job j is in order: the files in list order, each beginning with its
\* process_file call; the embed call of chunk 1 follows the chunker, the embed call
\* of a later chunk follows the store call of the chunk before it, and the store
\* call of a chunk, under the chunk's number less one, follows its embed call
CallsInOrder(j) ==
    \A k \in Indices(calls[j]) :
        LET c == calls[j][k]
        IN  /\ c.op = "process_file" =>
                  /\ c.file = Cardinality({m \in 1..k : calls[j][m].op = "process_file"})
                  /\ k > 1 => calls[j][k - 1].file = c.file - 1
            /\ c.op # "process_file" =>
                  /\ k > 1
                  /\ calls[j][k - 1].file = c.file
            /\ c.op = "generate_embedding" =>
                  IF c.chunk = 1 THEN calls[j][k - 1].op = "_chunk_text"
                  ELSE /\ calls[j][k - 1].op = "store_embedding"
                       /\ calls[j][k - 1].chunk_index = c.chunk - 2
                       /\ ~calls[j][k - 1].raised
            /\ c.op = "store_embedding" =>
                  /\ calls[j][k - 1].op = "generate_embedding"
                  /\ calls[j][k - 1].chunk = c.chunk_index + 1
                  /\ ~calls[j][k - 1].raised

\* where job j is between its events and its calls
EventsAndCallsInOrder(j) ==
    /\ pc[j] \in {"embed", "store"} =>
          /\ LastOf(events[j]).status = "embedding"
          /\ LastOf(events[j]).current_file = file_idx[j]
          /\ LastOf(events[j]).current_chunk = chunk_idx[j]
    /\ pc[j] = "embed" =>
          \A k \in CallsOf(j, file_idx[j], {"generate_embedding"}) :
              calls[j][k].chunk < chunk_idx[j]
    /\ pc[j] = "store" =>
          /\ LastOf(calls[j]).op = "generate_embedding"
          /\ LastOf(calls[j]).file = file_idx[j]
          /\ LastOf(calls[j]).chunk = chunk_idx[j]
          /\ ~LastOf(calls[j]).raised
    /\ pc[j] = "sleep" =>
          /\ LastOf(events[j]).status = "storing"
          /\ LastOf(events[j]).current_file = file_idx[j]
          /\ LastOf(events[j]).current_chunk = chunk_idx[j]
          /\ LastOf(calls[j]).op = "store_embedding"
          /\ LastOf(calls[j]).file = file_idx[j]
          /\ LastOf(calls[j]).chunk_index = chunk_idx[j] - 1
          /\ ~LastOf(calls[j]).raised

\* a completed file of C chunks has had one embed call per chunk 1..C and one
\* store call per index 0..C-1
ExactlyOnce(j, p) ==
    LET C == file_details[j][p].chunks_total
    IN  /\ Cardinality(CallsOf(j, p, {"generate_embedding"})) = C
        /\ Cardinality(CallsOf(j, p, {"store_embedding"})) = C
        /\ \A c \in 1..C :
              /\ \E k \in CallsOf(j, p, {"generate_embedding"}) : calls[j][k].chunk = c
              /\ \E k \in CallsOf(j, p, {"store_embedding"}) :
                    calls[j][k].chunk_index = c - 1

\* C20: the calls of a job are in one order, files in list order and chunks in
\* chunk order; a chunk's embedding event is out before its embed call starts, the
\* embed call is over before the store call, and the store call, under the chunk's
\* number less one, is over before the storing event and the next chunk's embed
\* call; a completed file has had exactly one embed and one store call per chunk.
C20_SequentialExactlyOnce ==
    \A j \in Jobs :
        /\ CallsInOrder(j)
        /\ EventsAndCallsInOrder(j)
        /\ \A p \in Indices(file_details[j]) :
              file_details[j][p].status = "completed" => ExactlyOnce(j, p)

C20_Witness ==
    \E j \in Jobs :
        /\ pc[j] = "done" /\ TotalFiles(j) >= 2
        /\ file_details[j][1].status = "completed"
        /\ file_details[j][1].chunks_total = 2
        /\ file_details[j][2].status = "completed"
        /\ Cardinality(CallsOf(j, 1, {"store_embedding"})) = 2

\* What a generator running alone yields for request r when its calls have the
\* outcomes of a log.  A run is [ev, fds, i, cks, k, paused]: the events, the
\* FileDetail list, the file number, the file's chunks, the chunk number, and
\* whether it is in the pause after a chunk.
AloneStart == [ev |-> <<>>, fds |-> <<>>, i |-> 0, cks |-> <<>>, k |-> 0, paused |-> FALSE]

AloneFail(r, a) ==
    LET fds == [a.fds EXCEPT ![a.i].status = "failed"]
    IN  [a EXCEPT !.fds = fds, !.ev = Append(a.ev, ErrorEvent(a.i, Len(r.files), fds)),
                  !.paused = FALSE]

AloneChunk(r, a, k) ==
    LET total == Len(a.cks)
        fds == [a.fds EXCEPT ![a.i].chunks_total = total, ![a.i].chunks_done = k,
                             ![a.i].percentage = FilePctOf[total][k],
                             ![a.i].status = "embedding"]
    IN  [a EXCEPT !.fds = fds, !.k = k, !.paused = FALSE,
                  !.ev = Append(a.ev, ProgressEvent(a.i, Len(r.files), k, total,
                                    PctChunkOf[Len(r.files)][a.i][total][k],
                                    "embedding", fds))]

AloneFinish(r, a) ==
    LET total == Len(a.cks)
        fds == [a.fds EXCEPT ![a.i].chunks_total = total, ![a.i].status = "completed",
                             ![a.i].percentage = 100]
    IN  [a EXCEPT !.fds = fds, !.paused = FALSE,
                  !.ev = Append(a.ev, ProgressEvent(a.i, Len(r.files), total, total,
                                    PctCompletedOf[Len(r.files)][a.i], "completed", fds))]

\* the end of the pause: the next chunk, or the end of the file
AloneResume(r, a) ==
    IF ~a.paused THEN a
    ELSE IF a.k < Len(a.cks) THEN AloneChunk(r, a, a.k + 1)
    ELSE AloneFinish(r, a)

AloneBegin(r, a) ==
    LET i == a.i + 1
        fds == Append(a.fds, NewFileDetail(r.files[i]))
    IN  [a EXCEPT !.i = i, !.fds = fds, !.cks = <<>>, !.k = 0,
                  !.ev = Append(a.ev, ProgressEvent(i, Len(r.files), 0, 0,
                                    PctProcessingOf[Len(r.files)][i], "processing", fds))]

\* the run after the call c of the log
AloneCall(r, a, c, W, V) ==
    IF c.op = "process_file"
    THEN LET b == AloneBegin(r, AloneResume(r, a))
             res == ProcessFileResult(r.files[b.i], c.disk, W, V)
         IN  IF res.raised THEN AloneFail(r, b)
             ELSE IF res.chunks = <<>> THEN AloneFinish(r, [b EXCEPT !.cks = res.chunks])
             ELSE AloneChunk(r, [b EXCEPT !.cks = res.chunks], 1)
    ELSE IF c.op = "generate_embedding"
    THEN IF c.raised THEN AloneFail(r, AloneResume(r, a)) ELSE AloneResume(r, a)
    ELSE IF c.op = "store_embedding"
    THEN IF c.raised THEN AloneFail(r, a)
         ELSE LET fds == [a.fds EXCEPT ![a.i].status = "storing"]
              IN  [a EXCEPT !.fds = fds, !.paused = TRUE,
                            !.ev = Append(a.ev, ProgressEvent(a.i, Len(r.files), a.k,
                                              Len(a.cks),
                                              PctChunkOf[Len(r.files)][a.i][Len(a.cks)][a.k],
                                              "storing", fds))]
    ELSE a

RECURSIVE AloneLog(_, _, _, _, _)
AloneLog(r, log, n, W, V) ==
    IF n = 0 THEN AloneStart
    ELSE AloneCall(r, AloneLog(r, log, n - 1, W, V), log[n], W, V)

\* the run of a generator that is at position at after the calls of log
Alone(r, log, at, W, V) ==
    LET a == AloneLog(r, log, Len(log), W, V)
    IN  IF at \in {"idle", "sleep"} THEN a
        ELSE IF at = "process" THEN AloneBegin(r, AloneResume(r, a))
        ELSE IF at = "done"
        THEN LET b == AloneResume(r, a)
             IN  [b EXCEPT !.ev = Append(b.ev, CompleteEvent(Len(r.files)))]
        ELSE AloneResume(r, a)

\* C18: with two generators interleaved, the events of each and its FileDetail
\* list are those of a generator running alone on its request with the same
\* outcomes of its calls, and every FileDetail in an event of a job is of a file of
\* that job's request, at that file's place.
C18_NoInterference ==
    \A j \in Jobs :
        LET a == Alone(req[j], calls[j], pc[j], chunk_size, chunk_overlap)
        IN  /\ events[j] = a.ev
            /\ file_details[j] = a.fds
            /\ \A k \in Indices(events[j]) :
                  HasDetails(events[j][k]) =>
                      /\ Len(events[j][k].file_details) = events[j][k].current_file
                      /\ \A p \in Indices(events[j][k].file_details) :
                            events[j][k].file_details[p].file_id = req[j].files[p].id

C18_Witness ==
    /\ scope.njobs = 2
    /\ pc[1] = "done" /\ pc[2] = "sleep"
    /\ req[1].files = req[2].files
    /\ file_details[1] # <<>> /\ file_details[1][1].status = "completed"
    /\ file_details[2] # <<>> /\ file_details[2][1].status = "storing"
    /\ chunk_idx[2] = 1
    /\ \E r \in store : r.chunk_index = 0 /\ r.updated_at > r.created_at

\* C26: a job with an empty file list that runs undisturbed makes no extract,
\* embed or store call and emits nothing but, at its end, the one complete event
\* with percentage 100; it never emits an error event.
C26_EmptyJob ==
    \A j \in Jobs :
        (pc[j] # "idle" /\ TotalFiles(j) = 0) =>
            /\ calls[j] = <<>>
            /\ file_details[j] = <<>>
            /\ \/ pc[j] = "next" /\ events[j] = <<>>
               \/ /\ pc[j] = "done"
                  /\ events[j] = <<CompleteEvent(0)>>
                  /\ events[j][1].type = "complete"
                  /\ events[j][1].percentage = 100

C26_Witness ==
    \E j \in Jobs :
        /\ pc[j] = "done" /\ req[j].files = <<>> /\ req[j].version_id # 0
        /\ Len(events[j]) = 1 /\ events[j][1].type = "complete"

\* C21: under the fairness of SpecLive (every call returns or raises, the
\* consumer stays connected) a started job, whatever the chunk size and overlap
\* of its service, eventually ends with its complete event, every one of its
\* files then being completed or failed.
C21_JobCompletes ==
    (pc[1] = "next") ~>
        (/\ pc[1] = "done"
         /\ Len(file_details[1]) = TotalFiles(1)
         /\ \A i \in 1..Len(file_details[1]) :
                file_details[1][i].status \in {"completed", "failed"}
         /\ events[1][Len(events[1])].type = "complete")

\* the rows of a table under the key of the last store_embedding call
KeyRows(table) ==
    {r \in table : SameKey(r, st_last.version_id, st_last.file_id, st_last.chunk_index)}

\* C22: a store_embedding call under a key the table holds leaves every other
\* row as it was and, of the row of that key, its id, its knowledge base id and
\* its creation time; a call under a new key leaves every row as it was and adds
\* one row whose creation and update times are equal.
C22_UpsertFrame ==
    st_last.called =>
        /\ store \ KeyRows(store) = st_last.before \ KeyRows(st_last.before)
        /\ Cardinality(KeyRows(store)) = 1
        /\ IF st_last.conflict
           THEN \A new \in KeyRows(store) : \A old \in KeyRows(st_last.before) :
                    /\ new.id = old.id
                    /\ new.knowledge_base_id = old.knowledge_base_id
                    /\ new.created_at = old.created_at
                    /\ new.updated_at > old.updated_at
           ELSE /\ KeyRows(st_last.before) = {}
                /\ st_last.before \subseteq store
                /\ \A new \in KeyRows(store) :
                      /\ new.created_at = new.updated_at
                      /\ new.knowledge_base_id = st_last.knowledge_base_id

\* a conflicting call with another knowledge base id than the row's, on a table
\* that holds other rows too
C22_Witness ==
    /\ st_last.called /\ st_last.conflict
    /\ Cardinality(store) >= 2
    /\ \E r \in KeyRows(store) :
          /\ r.knowledge_base_id # st_last.knowledge_base_id
          /\ r.created_at < r.updated_at
          /\ r.chunk_text = st_last.chunk_text
    /\ \E old \in KeyRows(st_last.before) : old.chunk_text # st_last.chunk_text

\* C23: as long as every line read is well-formed, with or without the data:
\* prefix, the generator has yielded one delta per line read, the k-th being
\* exactly the message.content string of the k-th line.
C23_DeltaIsContent ==
    (\A k \in 1..ch_pos : WellFormed(ch_lines[k])) =>
        /\ ch_pc # "raised"
        /\ ch_out = [k \in 1..ch_pos |-> ch_lines[k].body.v.f["message"].f["content"]]

\* the store_embedding calls of job j for file number p that have returned
StoredOf(j, p) ==
    {k \in CallsOf(j, p, {"store_embedding"}) : ~calls[j][k].raised}

\* C25: in the event a job has just emitted, every FileDetail has
\* 0 <= chunks_done <= chunks_total, a chunks_done no greater than the number of
\* store calls completed for its file, and status completed if its percentage
\* is 100.
C25_ChunksDoneAreStored ==
    \A j \in Jobs :
        (events[j] # <<>> /\ HasDetails(LastOf(events[j]))) =>
            LET fds == LastOf(events[j]).file_details
            IN  \A p \in Indices(fds) :
                    /\ 0 <= fds[p].chunks_done
                    /\ fds[p].chunks_done <= fds[p].chunks_total
                    /\ fds[p].chunks_done <= Cardinality(StoredOf(j, p))
                    /\ fds[p].percentage = 100 => fds[p].status = "completed"

\* the key of the record job j is about to store
StoringKey(j, r) ==
    /\ pc[j] = "store"
    /\ SameKey(r, req[j].version_id, req[j].files[file_idx[j]].id, chunk_idx[j] - 1)

\* C24: no step removes a record: every record of the table is after the step
\* either as it was, or, if a job is storing under its key, replaced by a record
\* of the same key; so the records of the chunk indices a later ingestion of the
\* file does not reach keep their text.
C24_StoreOnlyGrows ==
    [][\A r \in store :
          \/ r \in store'
          \/ /\ \E j \in Jobs : StoringKey(j, r)
             /\ \E r2 \in store' :
                   /\ SameKey(r2, r.knowledge_base_version_id, r.knowledge_base_file_id,
                              r.chunk_index)
                   /\ r2.id = r.id]_vars

\* the second job has re-ingested, as one chunk, a file the first job stored two
\* chunks of: the record of chunk index 1 is still the first job's
C24_Witness ==
    /\ pc[1] = "done" /\ pc[2] = "done"
    /\ req[1].files # <<>> /\ req[2].files = req[1].files
    /\ file_details[1][1].chunks_total = 2
    /\ file_details[2][1].chunks_total = 1 /\ file_details[2][1].status = "completed"
    /\ \E r0, r1 \in store :
          /\ SameKey(r0, req[2].version_id, req[2].files[1].id, 0)
          /\ SameKey(r1, req[2].version_id, req[2].files[1].id, 1)
          /\ r0.chunk_text = <<"a">> /\ r0.updated_at > r0.created_at
          /\ r1.chunk_text = <<"a">> /\ r1.updated_at = r1.created_at
          /\ r1.updated_at < r0.updated_at

====
